---------------------------- MODULE Spec2Model ----------------------------
(***************************************************************************)
(* gAVL<T>: a generic AVL tree (src/include/gAVL.h), instantiated as in    *)
(* src/examples/double_example/double_example.cpp with an epsilon          *)
(* comparator.                                                             *)
(*                                                                         *)
(* The heap of gAVLNode objects is a function from addresses to node       *)
(* records; shared_ptr values are addresses, nullptr is NULL.  Every loop  *)
(* of the source is a RECURSIVE operator over the loop's local variables.  *)
(***************************************************************************)
EXTENDS Integers, Sequences, FiniteSets, TLC

\* Number of grid values 10, 20, ..., 10 * MaxKeys offered to insert/remove.
MaxKeys == 7

\* Largest grid value, 10 * MaxTrip, of the sets U taken through a round trip.
MaxTrip == 5

\* Number of grid values 10, 20, ..., 10 * MaxDeep offered to insert/remove
\* where the retrace walks are observed (SpecRetrace).
MaxDeep == 8

\* Largest grid value, 10 * MaxCall, offered where remove is followed pass
\* by pass (SpecCall).
MaxCall == 5

\* std::numeric_limits<double>::epsilon() of the example comparator, on the
\* model's integer scale: two values closer than Epsilon compare Equal.
Epsilon == 2

\* nullptr
NULL == 0

\* The values the callers pass: the grid 10, 20, ... and one value (11) that
\* lies within Epsilon of a grid value, so that Equal is coarser than =.
Values == {10 * k : k \in 1..MaxKeys} \cup {11}

\* The order relation of the example: 0 when |a - b| < Epsilon, negative
\* when a < b, positive otherwise.
comparator(a, b) ==
    IF (IF a - b < 0 THEN b - a ELSE a - b) < Epsilon THEN 0
    ELSE IF a < b THEN -1
    ELSE 1

\* gAVLNode(): all links null, balance factor 0 (insert then sets _data).
gAVLNode(data) ==
    [data |-> data, parent |-> NULL, left |-> NULL, right |-> NULL,
     balance_factor |-> 0]

\* std::make_shared<gAVLNode<T>>(): an address not in use.
NewAddress(node) == CHOOSE a \in 1..(Cardinality(DOMAIN node) + 1) : a \notin DOMAIN node

\* One entry of the record of rotation primitives an operation invoked.
RotEvent(fn, t, X, Z, Y) ==
    [fn |-> fn,
     bX |-> t.node[X].balance_factor,
     bZ |-> t.node[Z].balance_factor,
     bY |-> IF Y = NULL THEN 0 ELSE t.node[Y].balance_factor,
     hasY |-> Y # NULL]

---------------------------------------------------------------------------
\* The gAVL object is a record t: the members root and size, the heap node,
\* and the locals that outlive one operator of this module: ret (the node a
\* rotation returned), local (the shared_ptr `node` of insert, `q` of
\* remove once a node is spliced out), attached (insert linked its node),
\* s (the stack of remove), log (the rotations invoked so far), before (the
\* tree when the latest rotation was invoked) and relinks (the relinks of
\* rotated subtrees done so far).

\* The addresses of the nodes below p in heap nd, in in-order position.
RECURSIVE InOrderAddrs(_, _)
InOrderAddrs(nd, p) ==
    IF p = NULL THEN <<>>
    ELSE InOrderAddrs(nd, nd[p].left) \o <<p>> \o InOrderAddrs(nd, nd[p].right)

\* The in-order sequence of the whole tree, as <<address, value>> pairs,
\* and the addresses in use.
Snapshot(t) ==
    [order |-> [i \in 1..Len(InOrderAddrs(t.node, t.root)) |->
                   <<InOrderAddrs(t.node, t.root)[i],
                     t.node[InOrderAddrs(t.node, t.root)[i]].data>>],
     heap |-> DOMAIN t.node]

\* SetParentIfNotNull with the assignment forgotten: the moved child keeps
\* its former parent link.
SetParentIfNotNull_Forgotten(nd, c, p) == nd

\* `if (c != nullptr) c->_parent = p;`
SetParentIfNotNull(nd, c, p) ==
    IF c # NULL THEN [nd EXCEPT ![c].parent = p] ELSE nd

rotate_right_balance(nd, X, Z) ==
    IF nd[Z].balance_factor = 0
    THEN [nd EXCEPT ![X].balance_factor = -1, ![Z].balance_factor = 1]
    ELSE [nd EXCEPT ![X].balance_factor = 0, ![Z].balance_factor = 0]

rotate_right(t, X, Z) ==
    LET t32 == t.node[Z].right
        n1 == [t.node EXCEPT ![X].left = t32]
        n2 == SetParentIfNotNull(n1, t32, X)
        n3 == [n2 EXCEPT ![Z].right = X, ![X].parent = Z]
        n4 == rotate_right_balance(n3, X, Z)
    IN [t EXCEPT !.node = n4, !.ret = Z,
                 !.log = Append(@, RotEvent("rotate_right", t, X, Z, NULL)),
                 !.before = Snapshot(t)]

\* rotate_left_balance with the two cases exchanged.
rotate_left_balance_Exchanged(nd, X, Z) ==
    IF nd[Z].balance_factor = 0
    THEN [nd EXCEPT ![X].balance_factor = 0, ![Z].balance_factor = 0]
    ELSE [nd EXCEPT ![X].balance_factor = 1, ![Z].balance_factor = -1]

rotate_left_balance(nd, X, Z) ==
    IF nd[Z].balance_factor = 0
    THEN [nd EXCEPT ![X].balance_factor = 1, ![Z].balance_factor = -1]
    ELSE [nd EXCEPT ![X].balance_factor = 0, ![Z].balance_factor = 0]

rotate_left(t, X, Z) ==
    LET t23 == t.node[Z].left
        n1 == [t.node EXCEPT ![X].right = t23]
        n2 == SetParentIfNotNull(n1, t23, X)
        n3 == [n2 EXCEPT ![Z].left = X, ![X].parent = Z]
        n4 == rotate_left_balance(n3, X, Z)
    IN [t EXCEPT !.node = n4, !.ret = Z,
                 !.log = Append(@, RotEvent("rotate_left", t, X, Z, NULL)),
                 !.before = Snapshot(t)]

\* rotate_right_left from `t2 = Y->_left` to `X->_parent = Y`.
rotate_right_left_outer(nd, X, Y) ==
    LET t2 == nd[Y].left
        n1 == [nd EXCEPT ![X].right = t2]
        n2 == SetParentIfNotNull(n1, t2, X)
    IN [n2 EXCEPT ![Y].left = X, ![X].parent = Y]

rotate_right_left_balance(nd, X, Z, Y) ==
    IF nd[Y].balance_factor > 0
    THEN [nd EXCEPT ![X].balance_factor = -1, ![Z].balance_factor = 0,
                    ![Y].balance_factor = 0]
    ELSE IF nd[Y].balance_factor = 0
    THEN [nd EXCEPT ![X].balance_factor = 0, ![Z].balance_factor = 0,
                    ![Y].balance_factor = 0]
    ELSE [nd EXCEPT ![X].balance_factor = 0, ![Z].balance_factor = 1,
                    ![Y].balance_factor = 0]

rotate_right_left(t, X, Z) ==
    LET Y == t.node[Z].left
        t3 == t.node[Y].right
        n1 == [t.node EXCEPT ![Z].left = t3]
        n2 == SetParentIfNotNull(n1, t3, Z)
        n3 == [n2 EXCEPT ![Y].right = Z, ![Z].parent = Y]
        n4 == rotate_right_left_outer(n3, X, Y)
        n5 == rotate_right_left_balance(n4, X, Z, Y)
    IN [t EXCEPT !.node = n5, !.ret = Y,
                 !.log = Append(@, RotEvent("rotate_right_left", t, X, Z, Y)),
                 !.before = Snapshot(t)]

\* rotate_left_right from `t2 = Y->_right` to `X->_parent = Y`.
rotate_left_right_outer(nd, X, Y) ==
    LET t2 == nd[Y].right
        n1 == [nd EXCEPT ![X].left = t2]
        n2 == SetParentIfNotNull(n1, t2, X)
    IN [n2 EXCEPT ![Y].right = X, ![X].parent = Y]

rotate_left_right_balance(nd, X, Z, Y) ==
    IF nd[Y].balance_factor < 0
    THEN [nd EXCEPT ![X].balance_factor = 1, ![Z].balance_factor = 0,
                    ![Y].balance_factor = 0]
    ELSE IF nd[Y].balance_factor = 0
    THEN [nd EXCEPT ![X].balance_factor = 0, ![Z].balance_factor = 0,
                    ![Y].balance_factor = 0]
    ELSE [nd EXCEPT ![X].balance_factor = 0, ![Z].balance_factor = -1,
                    ![Y].balance_factor = 0]

rotate_left_right(t, X, Z) ==
    LET Y == t.node[Z].right
        t3 == t.node[Y].left
        n1 == [t.node EXCEPT ![Z].right = t3]
        n2 == SetParentIfNotNull(n1, t3, Z)
        n3 == [n2 EXCEPT ![Y].left = Z, ![Z].parent = Y]
        n4 == rotate_left_right_outer(n3, X, Y)
        n5 == rotate_left_right_balance(n4, X, Z, Y)
    IN [t EXCEPT !.node = n5, !.ret = Y,
                 !.log = Append(@, RotEvent("rotate_left_right", t, X, Z, Y)),
                 !.before = Snapshot(t)]

\* AdaptParentLink with the test `X == G->_left` left out: N always goes
\* to G's left slot.
AdaptParentLink_AlwaysLeft(t, G, X) ==
    IF G # NULL
    THEN [t EXCEPT !.node[t.ret].parent = G, !.node[G].left = t.ret]
    ELSE [t EXCEPT !.node[t.ret].parent = G, !.root = t.ret]

\* "After a rotation adapt parent link", N == t.ret being the node the
\* rotation returned: N->_parent = G, then N takes X's slot under G, or
\* becomes _root when G is null.
AdaptParentLink(t, G, X) ==
    IF G # NULL
    THEN IF X = t.node[G].left
         THEN [t EXCEPT !.node[t.ret].parent = G, !.node[G].left = t.ret]
         ELSE [t EXCEPT !.node[t.ret].parent = G, !.node[G].right = t.ret]
    ELSE [t EXCEPT !.node[t.ret].parent = G, !.root = t.ret]

\* One entry of the record of relinks: after the rotation at X below G
\* returned N == t.ret and its result was relinked, the retrace loop was
\* left by `break` (stop) or went on to its next pass; the tree as it was
\* when the rotation was invoked (before) and as it is now (after).
Relinked(t, X, G, stop) ==
    [t EXCEPT !.relinks = Append(@, [X |-> X, N |-> t.ret, G |-> G, stop |-> stop,
                                     before |-> t.before, after |-> Snapshot(t)])]

---------------------------------------------------------------------------
\* retrace_insert: the for loop, with loop variable Z (X = Z->_parent).
RECURSIVE retrace_insert(_, _)

\* retrace_insert without the `break` after the relink: the walk goes on
\* from the rotated subtree's root, as retrace_remove's does.
retrace_insert_ContinueAfterRotation(t, Z) ==
    LET X == t.node[Z].parent
    IN IF X = NULL THEN t
       ELSE IF Z = t.node[X].right
       THEN IF t.node[X].balance_factor > 0
            THEN LET r == Relinked(AdaptParentLink(IF t.node[Z].balance_factor < 0
                                                   THEN rotate_right_left(t, X, Z)
                                                   ELSE rotate_left(t, X, Z),
                                                   t.node[X].parent, X),
                                   X, t.node[X].parent, FALSE)
                 IN retrace_insert(r, r.ret)
            ELSE IF t.node[X].balance_factor < 0
                 THEN [t EXCEPT !.node[X].balance_factor = 0]
                 ELSE retrace_insert([t EXCEPT !.node[X].balance_factor = 1], X)
       ELSE IF t.node[X].balance_factor < 0
            THEN LET r == Relinked(AdaptParentLink(IF t.node[Z].balance_factor > 0
                                                   THEN rotate_left_right(t, X, Z)
                                                   ELSE rotate_right(t, X, Z),
                                                   t.node[X].parent, X),
                                   X, t.node[X].parent, FALSE)
                 IN retrace_insert(r, r.ret)
            ELSE IF t.node[X].balance_factor > 0
                 THEN [t EXCEPT !.node[X].balance_factor = 0]
                 ELSE retrace_insert([t EXCEPT !.node[X].balance_factor = -1], X)

retrace_insert(t, Z) ==
    LET X == t.node[Z].parent
    IN IF X = NULL THEN t
       ELSE IF Z = t.node[X].right
       THEN IF t.node[X].balance_factor > 0
            THEN Relinked(AdaptParentLink(IF t.node[Z].balance_factor < 0
                                          THEN rotate_right_left(t, X, Z)
                                          ELSE rotate_left(t, X, Z),
                                          t.node[X].parent, X),
                          X, t.node[X].parent, TRUE)
            ELSE IF t.node[X].balance_factor < 0
                 THEN [t EXCEPT !.node[X].balance_factor = 0]
                 ELSE retrace_insert([t EXCEPT !.node[X].balance_factor = 1], X)
       ELSE IF t.node[X].balance_factor < 0
            THEN Relinked(AdaptParentLink(IF t.node[Z].balance_factor > 0
                                          THEN rotate_left_right(t, X, Z)
                                          ELSE rotate_right(t, X, Z),
                                          t.node[X].parent, X),
                          X, t.node[X].parent, TRUE)
            ELSE IF t.node[X].balance_factor > 0
                 THEN [t EXCEPT !.node[X].balance_factor = 0]
                 ELSE retrace_insert([t EXCEPT !.node[X].balance_factor = -1], X)

RECURSIVE insert_descend(_, _, _)

\* insert_descend that, on Equal, stores the new value in the node found
\* (an "insert or assign").
insert_descend_AssignOnEqual(t, node, p) ==
    LET comp == comparator(t.node[node].data, t.node[p].data)
    IN IF comp < 0
       THEN IF t.node[p].left # NULL
            THEN insert_descend(t, node, t.node[p].left)
            ELSE [t EXCEPT !.node[p].left = node, !.node[node].parent = p,
                           !.attached = TRUE]
       ELSE IF comp = 0
       THEN [t EXCEPT !.node[p].data = t.node[node].data, !.attached = FALSE]
       ELSE IF t.node[p].right # NULL
            THEN insert_descend(t, node, t.node[p].right)
            ELSE [t EXCEPT !.node[p].right = node, !.node[node].parent = p,
                           !.attached = TRUE]

\* insert: the descent loop `while (true)` from p, attaching `node`;
\* attached is FALSE when the loop is left by `return` (Equal).
insert_descend(t, node, p) ==
    LET comp == comparator(t.node[node].data, t.node[p].data)
    IN IF comp < 0
       THEN IF t.node[p].left # NULL
            THEN insert_descend(t, node, t.node[p].left)
            ELSE [t EXCEPT !.node[p].left = node, !.node[node].parent = p,
                           !.attached = TRUE]
       ELSE IF comp = 0
       THEN [t EXCEPT !.attached = FALSE]
       ELSE IF t.node[p].right # NULL
            THEN insert_descend(t, node, t.node[p].right)
            ELSE [t EXCEPT !.node[p].right = node, !.node[node].parent = p,
                           !.attached = TRUE]

\* insert_retrace calling retrace_insert(p), p being the node the new one
\* was attached to, instead of retrace_insert(node).
insert_retrace_FromParent(t) ==
    IF t.attached
    THEN [retrace_insert(t, t.node[t.local].parent) EXCEPT !.size = @ + 1]
    ELSE t

\* insert_retrace with `_size++` reached also when the descent returned
\* on Equal.
insert_retrace_CountDuplicate(t) ==
    IF t.attached
    THEN [retrace_insert(t, t.local) EXCEPT !.size = @ + 1]
    ELSE [t EXCEPT !.size = @ + 1]

\* insert after the descent loop: `retrace_insert(node); _size++;` unless
\* the loop returned.
insert_retrace(t) ==
    IF t.attached
    THEN [retrace_insert(t, t.local) EXCEPT !.size = @ + 1]
    ELSE t

\* insert up to its return.
insert_body(t, data) ==
    LET nd == NewAddress(t.node)
    IN IF t.root = NULL
       THEN [t EXCEPT !.node = (nd :> gAVLNode(data)) @@ @, !.local = nd,
                      !.root = nd, !.size = @ + 1, !.attached = TRUE]
       ELSE insert_retrace(insert_descend(
                [t EXCEPT !.node = (nd :> gAVLNode(data)) @@ @, !.local = nd],
                nd, t.root))

\* The local shared_ptr (`node` of insert, `q` of remove) going out of
\* scope: the node object is destroyed unless the tree holds it.
ReleaseLocal(t) ==
    IF \/ t.local = NULL
       \/ t.root = t.local
       \/ \E n \in DOMAIN t.node :
             /\ n # t.local
             /\ t.local \in {t.node[n].left, t.node[n].right, t.node[n].parent}
    THEN t
    ELSE [t EXCEPT !.node = [n \in DOMAIN t.node \ {t.local} |-> t.node[n]]]

insert(t, data) == ReleaseLocal(insert_body(t, data))

---------------------------------------------------------------------------
\* retrace_remove: the for loop, with loop variables N and X (G = X->_parent
\* is read at the top of each pass; b is the sibling's balance factor).
RECURSIVE retrace_remove_loop(_, _, _)

\* retrace_remove_adapt with the `if (b == 0)` test dropped: the walk stops
\* after every rotation below a parent, as retrace_insert does.
retrace_remove_adapt_BreakAfterRotation(t, X, G, b) ==
    IF G # NULL
    THEN Relinked(AdaptParentLink(t, G, X), X, G, TRUE)
    ELSE retrace_remove_loop(Relinked(AdaptParentLink(t, G, X), X, G, FALSE), t.ret, G)

\* retrace_remove after a rotation: "adapt parent link", then `break` when
\* G is not null and b == 0, else the next pass with N the rotated root.
retrace_remove_adapt(t, X, G, b) ==
    IF G # NULL /\ b = 0
    THEN Relinked(AdaptParentLink(t, G, X), X, G, TRUE)
    ELSE retrace_remove_loop(Relinked(AdaptParentLink(t, G, X), X, G, FALSE), t.ret, G)

retrace_remove_loop(t, N, X) ==
    IF X = NULL THEN t
    ELSE
    LET G == t.node[X].parent
    IN IF N = t.node[X].left
       THEN IF t.node[X].balance_factor > 0
            THEN LET Z == t.node[X].right
                     b == t.node[Z].balance_factor
                 IN retrace_remove_adapt(IF b < 0
                                         THEN rotate_right_left(t, X, Z)
                                         ELSE rotate_left(t, X, Z),
                                         X, G, b)
            ELSE IF t.node[X].balance_factor = 0
                 THEN [t EXCEPT !.node[X].balance_factor = 1]
                 ELSE retrace_remove_loop([t EXCEPT !.node[X].balance_factor = 0], X, G)
       ELSE IF t.node[X].balance_factor < 0
            THEN LET Z == t.node[X].left
                     b == t.node[Z].balance_factor
                 IN retrace_remove_adapt(IF b > 0
                                         THEN rotate_left_right(t, X, Z)
                                         ELSE rotate_right(t, X, Z),
                                         X, G, b)
            ELSE IF t.node[X].balance_factor = 0
                 THEN [t EXCEPT !.node[X].balance_factor = -1]
                 ELSE retrace_remove_loop([t EXCEPT !.node[X].balance_factor = 0], X, G)

retrace_remove(t, N) == retrace_remove_loop(t, N, t.node[N].parent)

RECURSIVE find_loop(_, _, _)

\* find_loop with the two descent directions exchanged.
find_loop_Swapped(t, data, q) ==
    IF q = NULL THEN NULL
    ELSE LET comp == comparator(data, t.node[q].data)
         IN IF comp < 0 THEN find_loop(t, data, t.node[q].right)
            ELSE IF comp = 0 THEN q
            ELSE find_loop(t, data, t.node[q].left)

\* find: descend from q by the comparator; the node that compares Equal, or
\* nullptr.
find_loop(t, data, q) ==
    IF q = NULL THEN NULL
    ELSE LET comp == comparator(data, t.node[q].data)
         IN IF comp < 0 THEN find_loop(t, data, t.node[q].left)
            ELSE IF comp = 0 THEN q
            ELSE find_loop(t, data, t.node[q].right)

find(t, data) == find_loop(t, data, t.root)

\* remove, two-children branch: `while (min->_left != nullptr) min = min->_left`.
\* LeftMost without the descent: the right child itself is taken as the
\* successor.
LeftMost_NoDescent(t, min) == min

RECURSIVE LeftMost(_, _)
LeftMost(t, min) ==
    IF t.node[min].left # NULL THEN LeftMost(t, t.node[min].left) ELSE min

\* Unlink that leaves _root alone when q is the root.
Unlink_KeepRoot(t, q) ==
    LET rep == IF t.node[q].right = NULL THEN t.node[q].left ELSE t.node[q].right
        qp == t.node[q].parent
        t1 == IF qp # NULL
              THEN IF comparator(t.node[q].data, t.node[qp].data) < 0
                   THEN [t EXCEPT !.node[qp].left = rep]
                   ELSE [t EXCEPT !.node[qp].right = rep]
              ELSE t
    IN [t1 EXCEPT !.node = SetParentIfNotNull(@, rep, qp),
                  !.node[q].parent = NULL, !.node[q].left = NULL,
                  !.node[q].right = NULL]

\* Unlink without the purge of q's links.
Unlink_NoPurge(t, q) ==
    LET rep == IF t.node[q].right = NULL THEN t.node[q].left ELSE t.node[q].right
        qp == t.node[q].parent
        t1 == IF qp # NULL
              THEN IF comparator(t.node[q].data, t.node[qp].data) < 0
                   THEN [t EXCEPT !.node[qp].left = rep]
                   ELSE [t EXCEPT !.node[qp].right = rep]
              ELSE [t EXCEPT !.root = rep]
    IN [t1 EXCEPT !.node = SetParentIfNotNull(@, rep, qp)]

\* remove, at-most-one-child branch after retrace_remove(q): the choice of
\* rep, "Remove and potentially replace", then the purge of q's links.
Unlink(t, q) ==
    LET rep == IF t.node[q].right = NULL THEN t.node[q].left ELSE t.node[q].right
        qp == t.node[q].parent
        t1 == IF qp # NULL
              THEN IF comparator(t.node[q].data, t.node[qp].data) < 0
                   THEN [t EXCEPT !.node[qp].left = rep]
                   ELSE [t EXCEPT !.node[qp].right = rep]
              ELSE [t EXCEPT !.root = rep]
    IN [t1 EXCEPT !.node = SetParentIfNotNull(@, rep, qp),
                  !.node[q].parent = NULL, !.node[q].left = NULL,
                  !.node[q].right = NULL]

\* remove, at-most-one-child branch.
Splice(t, q) == Unlink(retrace_remove(t, q), q)

\* ApplyOverwrites with the loop left out: the recorded values are never
\* written.
ApplyOverwrites_Skipped(t, s) == t

\* remove: `while (!s.empty())`, applying the recorded overwrites from the
\* top of the stack s (the last element of the sequence) down.
RECURSIVE ApplyOverwrites(_, _)
ApplyOverwrites(t, s) ==
    IF s = <<>> THEN t
    ELSE LET top == s[Len(s)]
         IN ApplyOverwrites([t EXCEPT !.node[top[1]].data = top[2]], SubSeq(s, 1, Len(s) - 1))

\* remove: the outer `while (true)` with its locals s, rdata and q.  local
\* is q when the loop is left by `break` (q was spliced out) and NULL when
\* it is left by `return`; s is the stack at that point.
RECURSIVE remove_loop(_, _, _)

\* One pass of the loop, q == find(rdata).
remove_pass(t, s, q) ==
    IF q = NULL
    THEN [t EXCEPT !.local = NULL, !.s = s]
    ELSE IF t.node[q].right = NULL \/ t.node[q].left = NULL
    THEN [Splice(t, q) EXCEPT !.local = q, !.s = s]
    ELSE LET rdata == t.node[LeftMost(t, t.node[q].right)].data
         IN remove_loop(t, Append(s, <<q, rdata>>), rdata)

remove_loop(t, s, rdata) == remove_pass(t, s, find(t, rdata))

\* remove_overwrite with _size decremented once per pass of the outer loop
\* (once per recorded overwrite and once for the splice).
remove_overwrite_DecrementPerPass(t) ==
    IF t.local = NULL THEN t
    ELSE [ApplyOverwrites(t, t.s) EXCEPT !.size = @ - 1 - Len(t.s)]

\* remove_overwrite with the `return` on a missing value replaced by
\* `break`: _size is decremented although nothing was spliced out.
remove_overwrite_BreakOnMiss(t) ==
    [ApplyOverwrites(t, t.s) EXCEPT !.size = @ - 1]

\* remove after the outer loop: nothing when the loop returned, else the
\* overwrites and `_size--`.
remove_overwrite(t) ==
    IF t.local = NULL THEN t
    ELSE [ApplyOverwrites(t, t.s) EXCEPT !.size = @ - 1]

\* remove up to its return.
remove_body(t, data) ==
    IF t.root = NULL
    THEN [t EXCEPT !.local = NULL, !.s = <<>>]
    ELSE remove_overwrite(remove_loop(t, <<>>, data))

\* The shared_ptr q of remove going out of scope after the purge.
remove(t, data) == ReleaseLocal(remove_body(t, data))

---------------------------------------------------------------------------
\* Queries.  A stack is a sequence whose last element is the top.

Top(s) == s[Len(s)]

Pop(s) == SubSeq(s, 1, Len(s) - 1)

size(t) == t.size

contains(t, data) == find(t, data) # NULL

RECURSIVE to_stl_vector_loop(_, _, _, _)

\* to_stl_vector_loop without `down = true` after pushing a right child: the
\* left descendants of right children are never visited.
to_stl_vector_loop_NoDownReset(t, s, down, v) ==
    IF s = <<>> THEN v
    ELSE LET p == Top(s)
         IN IF down /\ t.node[p].left # NULL
            THEN to_stl_vector_loop(t, Append(s, t.node[p].left), down, v)
            ELSE LET v1 == Append(v, t.node[p].data)
                 IN IF t.node[p].right # NULL
                    THEN to_stl_vector_loop(t, Append(Pop(s), t.node[p].right), FALSE, v1)
                    ELSE to_stl_vector_loop(t, Pop(s), FALSE, v1)

\* to_stl_vector: the `while (!s.empty())` loop with locals s, down, v.
to_stl_vector_loop(t, s, down, v) ==
    IF s = <<>> THEN v
    ELSE LET p == Top(s)
         IN IF down /\ t.node[p].left # NULL
            THEN to_stl_vector_loop(t, Append(s, t.node[p].left), down, v)
            ELSE LET v1 == Append(v, t.node[p].data)
                 IN IF t.node[p].right # NULL
                    THEN to_stl_vector_loop(t, Append(Pop(s), t.node[p].right), TRUE, v1)
                    ELSE to_stl_vector_loop(t, Pop(s), FALSE, v1)

to_stl_vector(t) ==
    to_stl_vector_loop(t, IF t.root # NULL THEN <<t.root>> ELSE <<>>, TRUE, <<>>)

\* parent(data, ref): [ret, ref], ref being the caller's variable.
parent(t, data, ref) ==
    LET p == find(t, data)
    IN IF p = NULL \/ t.node[p].parent = NULL
       THEN [ret |-> FALSE, ref |-> ref]
       ELSE [ret |-> TRUE, ref |-> t.node[t.node[p].parent].data]

\* root(data): [ret, data], data being the caller's variable.
root(t, data) ==
    IF t.root # NULL
    THEN [ret |-> TRUE, data |-> t.node[t.root].data]
    ELSE [ret |-> FALSE, data |-> data]

\* search(search_data, found_data): [ret, found_data], found_data being the
\* caller's variable.
search(t, search_data, found_data) ==
    IF find(t, search_data) # NULL
       /\ comparator(search_data, t.node[find(t, search_data)].data) = 0
    THEN [ret |-> TRUE, found_data |-> t.node[find(t, search_data)].data]
    ELSE [ret |-> FALSE, found_data |-> found_data]

RECURSIVE height_loop(_, _, _, _)

\* height_loop pushing a right child at its parent's height instead of
\* height + 1.
height_loop_RightSameHeight(t, s, down, max_height) ==
    IF s = <<>> THEN max_height
    ELSE LET p == Top(s)[1]
             ht == Top(s)[2]
         IN IF down /\ t.node[p].left # NULL
            THEN height_loop(t, Append(s, <<t.node[p].left, ht + 1>>), down, max_height)
            ELSE LET m1 == IF ht > max_height THEN ht ELSE max_height
                 IN IF t.node[p].right # NULL
                    THEN height_loop(t, Append(Pop(s), <<t.node[p].right, ht>>), TRUE, m1)
                    ELSE height_loop(t, Pop(s), FALSE, m1)

\* height: the `while (!s.empty())` loop; s holds <<node, height>> pairs.
height_loop(t, s, down, max_height) ==
    IF s = <<>> THEN max_height
    ELSE LET p == Top(s)[1]
             ht == Top(s)[2]
         IN IF down /\ t.node[p].left # NULL
            THEN height_loop(t, Append(s, <<t.node[p].left, ht + 1>>), down, max_height)
            ELSE LET m1 == IF ht > max_height THEN ht ELSE max_height
                 IN IF t.node[p].right # NULL
                    THEN height_loop(t, Append(Pop(s), <<t.node[p].right, ht + 1>>), TRUE, m1)
                    ELSE height_loop(t, Pop(s), FALSE, m1)

height(t) ==
    IF t.root = NULL THEN 0 ELSE height_loop(t, <<<<t.root, 1>>>>, TRUE, 1)

\* height_bounds.  std::floor(std::log2(n + 1.0)) is the largest k with
\* 2^k <= n + 1.
RECURSIVE FloorLog2(_)
FloorLog2(m) == IF m < 2 THEN 0 ELSE 1 + FloorLog2(m \div 2)

\* Fibonacci and Lucas numbers: phi^j = (Lucas(j) + Fib(j) * sqrt(5)) / 2.
RECURSIVE Fib(_)
Fib(j) == IF j = 0 THEN 0 ELSE IF j = 1 THEN 1 ELSE Fib(j - 1) + Fib(j - 2)

RECURSIVE Lucas(_)
Lucas(j) == IF j = 0 THEN 2 ELSE IF j = 1 THEN 1 ELSE Lucas(j - 1) + Lucas(j - 2)

\* c * log2(m) + b <= k, with c = 1/log2(phi) and b = (c/2) * log2(5) - 2:
\* that is log_phi(m * sqrt(5)) <= k + 2, i.e. 2 * m * sqrt(5) <=
\* Lucas(k+2) + Fib(k+2) * sqrt(5).  The doubles of the source are within
\* 1e-14 of these reals, and no m of the model comes that close to equality.
UpperArgAtMost(m, k) ==
    LET d == 2 * m - Fib(k + 2)
    IN d <= 0 \/ 5 * d * d <= Lucas(k + 2) * Lucas(k + 2)

\* std::ceil(x): the least integer k with x <= k.
RECURSIVE CeilUpperArg(_, _)
CeilUpperArg(m, k) == IF UpperArgAtMost(m, k) THEN k ELSE CeilUpperArg(m, k + 1)

\* <<lower, upper>>
height_bounds(t) ==
    LET n == size(t)
    IN <<FloorLog2(n + 1), CeilUpperArg(n + 2, 0) - 1>>

\* search_neighbors / search_before / search_after: "Get to spot where data
\* is, or data should be": the descent that pushes every visited node.
RECURSIVE SearchStack(_, _, _, _)
SearchStack(t, data, q, s) ==
    IF q = NULL THEN s
    ELSE LET comp == comparator(data, t.node[q].data)
             s1 == Append(s, q)
         IN IF comp < 0 THEN SearchStack(t, data, t.node[q].left, s1)
            ELSE IF comp = 0 THEN s1
            ELSE SearchStack(t, data, t.node[q].right, s1)

RECURSIVE LookBefore(_, _, _, _, _)

\* LookBefore that does not descend into the left subtree of a node that
\* failed the test.
LookBefore_NoLeftDescent(t, data, cond, s, down) ==
    IF s = <<>> THEN [found |-> FALSE, value |-> 0]
    ELSE LET p == Top(s)
         IN IF down /\ t.node[p].right # NULL
            THEN LookBefore(t, data, cond, Append(s, t.node[p].right), down)
            ELSE IF comparator(t.node[p].data, data) < 0 /\ t.node[p].data \in cond
            THEN [found |-> TRUE, value |-> t.node[p].data]
            ELSE LookBefore(t, data, cond, Pop(s), FALSE)

\* "look before": the `while (!s.empty())` loop.  The first value that
\* compares Less than data and passes the condition, in the loop's order.
LookBefore(t, data, cond, s, down) ==
    IF s = <<>> THEN [found |-> FALSE, value |-> 0]
    ELSE LET p == Top(s)
         IN IF down /\ t.node[p].right # NULL
            THEN LookBefore(t, data, cond, Append(s, t.node[p].right), down)
            ELSE IF comparator(t.node[p].data, data) < 0 /\ t.node[p].data \in cond
            THEN [found |-> TRUE, value |-> t.node[p].data]
            ELSE IF t.node[p].left # NULL
            THEN LookBefore(t, data, cond, Append(Pop(s), t.node[p].left), TRUE)
            ELSE LookBefore(t, data, cond, Pop(s), FALSE)

RECURSIVE LookAfter(_, _, _, _, _)

\* LookAfter that does not descend into the right subtree of a node that
\* failed the test.
LookAfter_NoRightDescent(t, data, cond, s, down) ==
    IF s = <<>> THEN [found |-> FALSE, value |-> 0]
    ELSE LET p == Top(s)
         IN IF down /\ t.node[p].left # NULL
            THEN LookAfter(t, data, cond, Append(s, t.node[p].left), down)
            ELSE IF comparator(t.node[p].data, data) > 0 /\ t.node[p].data \in cond
            THEN [found |-> TRUE, value |-> t.node[p].data]
            ELSE LookAfter(t, data, cond, Pop(s), FALSE)

\* "look after": the mirrored loop.
LookAfter(t, data, cond, s, down) ==
    IF s = <<>> THEN [found |-> FALSE, value |-> 0]
    ELSE LET p == Top(s)
         IN IF down /\ t.node[p].left # NULL
            THEN LookAfter(t, data, cond, Append(s, t.node[p].left), down)
            ELSE IF comparator(t.node[p].data, data) > 0 /\ t.node[p].data \in cond
            THEN [found |-> TRUE, value |-> t.node[p].data]
            ELSE IF t.node[p].right # NULL
            THEN LookAfter(t, data, cond, Append(Pop(s), t.node[p].right), TRUE)
            ELSE LookAfter(t, data, cond, Pop(s), FALSE)

\* A condition is the set of values it accepts.
search_before(t, data, ref, cond) ==
    IF t.root = NULL THEN [ret |-> FALSE, ref |-> ref]
    ELSE
    LET s == SearchStack(t, data, t.root, <<>>)
    IN IF Len(s) = 0 THEN [ret |-> FALSE, ref |-> ref]
       ELSE
       LET q == Top(s)
           eq == comparator(data, t.node[q].data) = 0
       IN IF eq /\ t.node[q].left = NULL /\ t.node[q].parent = NULL
          THEN [ret |-> FALSE, ref |-> ref]
          ELSE
          LET r == IF ~eq THEN LookBefore(t, data, cond, s, TRUE)
                   ELSE IF t.node[q].left # NULL
                   THEN LookBefore(t, data, cond, Append(s, t.node[q].left), TRUE)
                   ELSE LookBefore(t, data, cond, Pop(s), FALSE)
          IN IF r.found THEN [ret |-> TRUE, ref |-> r.value]
             ELSE [ret |-> FALSE, ref |-> ref]

search_after(t, data, ref, cond) ==
    IF t.root = NULL THEN [ret |-> FALSE, ref |-> ref]
    ELSE
    LET s == SearchStack(t, data, t.root, <<>>)
    IN IF Len(s) = 0 THEN [ret |-> FALSE, ref |-> ref]
       ELSE
       LET q == Top(s)
           eq == comparator(data, t.node[q].data) = 0
       IN IF eq /\ t.node[q].right = NULL /\ t.node[q].parent = NULL
          THEN [ret |-> FALSE, ref |-> ref]
          ELSE
          LET r == IF ~eq THEN LookAfter(t, data, cond, s, TRUE)
                   ELSE IF t.node[q].right # NULL
                   THEN LookAfter(t, data, cond, Append(s, t.node[q].right), TRUE)
                   ELSE LookAfter(t, data, cond, Pop(s), FALSE)
          IN IF r.found THEN [ret |-> TRUE, ref |-> r.value]
             ELSE [ret |-> FALSE, ref |-> ref]

\* std::map<Position, T>::insert: a set of <<key, value>> pairs; an insert
\* under a key the map already holds changes nothing.
MapInsert(m, k, v) == IF \E e \in m : e[1] = k THEN m ELSE m \cup {<<k, v>>}

search_neighbors(t, data, ref, cond) ==
    IF t.root = NULL THEN [ret |-> FALSE, ref |-> ref]
    ELSE
    LET s0 == Cardinality(ref)
        search_stack == SearchStack(t, data, t.root, <<>>)
    IN IF Len(search_stack) = 0 THEN [ret |-> FALSE, ref |-> ref]
       ELSE
       LET q == Top(search_stack)
           eq_comp == comparator(data, t.node[q].data) = 0
           ref1 == IF eq_comp THEN MapInsert(ref, "Equal", t.node[q].data) ELSE ref
       IN \* look before
          IF eq_comp /\ t.node[q].left = NULL /\ t.node[q].parent = NULL
          THEN [ret |-> FALSE, ref |-> ref1]
          ELSE
          LET b == IF ~eq_comp THEN LookBefore(t, data, cond, search_stack, TRUE)
                   ELSE IF t.node[q].left # NULL
                   THEN LookBefore(t, data, cond, Append(search_stack, t.node[q].left), TRUE)
                   ELSE LookBefore(t, data, cond, Pop(search_stack), FALSE)
              ref2 == IF b.found THEN MapInsert(ref1, "Before", b.value) ELSE ref1
          IN \* look after
             IF eq_comp /\ t.node[q].right = NULL /\ t.node[q].parent = NULL
             THEN [ret |-> FALSE, ref |-> ref2]
             ELSE
             LET a == IF ~eq_comp THEN LookAfter(t, data, cond, search_stack, TRUE)
                      ELSE IF t.node[q].right # NULL
                      THEN LookAfter(t, data, cond, Append(search_stack, t.node[q].right), TRUE)
                      ELSE LookAfter(t, data, cond, Pop(search_stack), FALSE)
             IN IF a.found
                THEN [ret |-> TRUE, ref |-> MapInsert(ref2, "After", a.value)]
                ELSE [ret |-> Cardinality(ref2) - s0 > 0, ref |-> ref2]

---------------------------------------------------------------------------
\* Addresses.  The program never orders or prints addresses, it only
\* compares them for equality, so two heaps that differ by a renaming of
\* addresses are the same program state.  After each operation the heap is
\* renamed to its representative: the nodes reachable from _root numbered
\* in in-order position, any other live node after them.

RECURSIVE AddrSeq(_)
AddrSeq(S) ==
    IF S = {} THEN <<>>
    ELSE LET m == CHOOSE x \in S : \A y \in S : x <= y
         IN <<m>> \o AddrSeq(S \ {m})

\* reach followed by the addresses of S that reach does not hold.
WithRest(reach, S) ==
    reach \o AddrSeq(S \ {reach[i] : i \in 1..Len(reach)})

\* The position of address a in order.
Renamed(order, a) ==
    IF a = NULL THEN NULL ELSE CHOOSE i \in 1..Len(order) : order[i] = a

Rename(t, order) ==
    [t EXCEPT !.root = Renamed(order, t.root),
              !.node = [i \in 1..Len(order) |->
                          [data |-> t.node[order[i]].data,
                           parent |-> Renamed(order, t.node[order[i]].parent),
                           left |-> Renamed(order, t.node[order[i]].left),
                           right |-> Renamed(order, t.node[order[i]].right),
                           balance_factor |-> t.node[order[i]].balance_factor]]]

Canon(t) == Rename(t, WithRest(InOrderAddrs(t.node, t.root), DOMAIN t.node))

---------------------------------------------------------------------------
\* State: the members of gAVL (_root, _size; _comparator is `comparator`),
\* the heap of nodes, the set of values the callers have inserted and not
\* removed since (`logical`, a history variable), and a record of the last
\* public operation (`last`): its name and argument, whether it attached
\* (insert) or spliced out (remove) a node, how many overwrites remove
\* recorded, the rotation primitives it invoked, and its position (pc:
\* "done" once it returned).
VARIABLES _root, _size, node, logical, last, trip

vars == <<_root, _size, node, logical, last, trip>>

\* The gAVL object as the operators above take it.
cur ==
    [root |-> _root, size |-> _size, node |-> node, ret |-> NULL,
     local |-> NULL, attached |-> FALSE, s |-> <<>>, log |-> <<>>,
     relinks |-> <<>>, before |-> <<>>]

NoLast ==
    [op |-> "none", data |-> 0, hit |-> FALSE, overwrites |-> 0, log |-> <<>>,
     pc |-> "done"]

\* The stage of a round trip of the example program (used by SpecTrip
\* only): the set U of values passed to insert, the ordered sequence and
\* the size read once U was inserted, the values removed and the values
\* inserted again since.
NoTrip ==
    [phase |-> "fill", U |-> {}, first |-> <<>>, count |-> 0,
     removed |-> {}, again |-> {}]

\* gAVL(comparator): _root(nullptr), _size(0).
Init ==
    /\ _root = NULL
    /\ _size = 0
    /\ node = <<>>
    /\ logical = {}
    /\ last = NoLast
    /\ trip = NoTrip

Store(t) ==
    /\ _root' = t.root
    /\ _size' = t.size
    /\ node' = t.node

\* The logical set after insert(v) and after remove(v).
LogicalInsert(v) ==
    IF \E y \in logical : comparator(v, y) = 0 THEN logical ELSE logical \cup {v}

LogicalRemove(v) == {y \in logical : comparator(v, y) # 0}

\* The state after insert(v) returned t.
Inserted(t, v) ==
    /\ Store(t)
    /\ logical' = LogicalInsert(v)
    /\ last' = [NoLast EXCEPT !.op = "insert", !.data = v, !.log = t.log,
                              !.hit = t.attached]
    /\ UNCHANGED trip

Insert(v) == Inserted(Canon(insert(cur, v)), v)

\* The state after remove(v) returned t.
Removed(t, v) ==
    /\ Store(t)
    /\ logical' = LogicalRemove(v)
    /\ last' = [NoLast EXCEPT !.op = "remove", !.data = v, !.log = t.log,
                              !.hit = t.local # NULL,
                              !.overwrites = Len(t.s)]
    /\ UNCHANGED trip

Remove(v) == Removed(Canon(remove(cur, v)), v)

Next ==
    \/ \E v \in Values : Insert(v)
    \/ \E v \in Values : Remove(v)

Spec == Init /\ [][Next]_vars

\* The same program with no record kept of the last call: its states are
\* the trees the program can build, each once.  The claims that quantify
\* over the arguments of a query at every tree are checked here.
InsertTree(v) ==
    /\ Store(Canon(insert(cur, v)))
    /\ logical' = LogicalInsert(v)
    /\ UNCHANGED <<last, trip>>

RemoveTree(v) ==
    /\ Store(Canon(remove(cur, v)))
    /\ logical' = LogicalRemove(v)
    /\ UNCHANGED <<last, trip>>

NextTree ==
    \/ \E v \in Values : InsertTree(v)
    \/ \E v \in Values : RemoveTree(v)

SpecTree == Init /\ [][NextTree]_vars

\* The program on the grid values up to 10 * MaxDeep, `last` recording of
\* each call its name, its argument and, for every relink of a rotated
\* subtree, whether X had a parent and whether the retrace loop then stopped.
DeepValues == {10 * k : k \in 1..MaxDeep}

RelinkSummary(t) ==
    [i \in 1..Len(t.relinks) |->
        [hasG |-> t.relinks[i].G # NULL, stop |-> t.relinks[i].stop]]

InsertedDeep(t, v) ==
    /\ Store(Canon(t))
    /\ logical' = LogicalInsert(v)
    /\ last' = [op |-> "insert", data |-> v, relinks |-> RelinkSummary(t)]
    /\ UNCHANGED trip

InsertDeep(v) == InsertedDeep(insert(cur, v), v)

RemovedDeep(t, v) ==
    /\ Store(Canon(t))
    /\ logical' = LogicalRemove(v)
    /\ last' = [op |-> "remove", data |-> v, relinks |-> RelinkSummary(t)]
    /\ UNCHANGED trip

RemoveDeep(v) == RemovedDeep(remove(cur, v), v)

NextRetrace ==
    \/ \E v \in DeepValues : InsertDeep(v)
    \/ \E v \in DeepValues : RemoveDeep(v)

SpecRetrace == Init /\ [][NextRetrace]_vars

\* The round trip of the example program: insert the values of a set U,
\* read the ordered sequence and the size, remove some of U, insert the
\* values of U again.  U is drawn from the values up to 10 * MaxTrip.
TripValues == {v \in Values : v <= 10 * MaxTrip}

\* "Fill the tree": tree.insert(d), d joining U.
TripFill(v) ==
    /\ trip.phase = "fill"
    /\ v \notin trip.U
    /\ Store(Canon(insert(cur, v)))
    /\ logical' = LogicalInsert(v)
    /\ trip' = [trip EXCEPT !.U = @ \cup {v}]
    /\ UNCHANGED last

\* `v = tree.to_stl_vector()` and tree.size() once U is inserted.
TripRead ==
    /\ trip.phase = "fill"
    /\ trip.U # {}
    /\ trip' = [trip EXCEPT !.phase = "remove", !.first = to_stl_vector(cur),
                            !.count = size(cur)]
    /\ UNCHANGED <<_root, _size, node, logical, last>>

\* "Remove ...": tree.remove(u[i]) for a value of U not removed yet.
TripRemove(v) ==
    /\ trip.phase = "remove"
    /\ v \in trip.U \ trip.removed
    /\ Store(Canon(remove(cur, v)))
    /\ logical' = LogicalRemove(v)
    /\ trip' = [trip EXCEPT !.removed = @ \cup {v}]
    /\ UNCHANGED last

\* "Re-add the entire set": tree.insert(u[i]) for a value of U not inserted
\* again yet.
TripAgain(v) ==
    /\ trip.phase \in {"remove", "again"}
    /\ v \in trip.U \ trip.again
    /\ Store(Canon(insert(cur, v)))
    /\ logical' = LogicalInsert(v)
    /\ trip' = [trip EXCEPT !.phase = "again", !.again = @ \cup {v}]
    /\ UNCHANGED last

NextTrip ==
    \/ \E v \in TripValues : TripFill(v)
    \/ TripRead
    \/ \E v \in TripValues : TripRemove(v)
    \/ \E v \in TripValues : TripAgain(v)

SpecTrip == Init /\ [][NextTrip]_vars

\* The program with remove taken one pass of its outer loop at a time.
\* `last` is the frame of the latest call: for a remove its argument, its
\* position (pc: "loop" at the head of `while (true)`, "after" once the
\* loop was left by `break`, "done" once remove returned), its locals
\* rdata, s and q, the number of find passes made so far, and whether a
\* node was spliced out.
CallValues == {v \in Values : v <= 10 * MaxCall}

\* No call is in progress.
Idle == last.pc = "done"

CallInsert(v) ==
    /\ Idle
    /\ Store(Canon(insert(cur, v)))
    /\ logical' = LogicalInsert(v)
    /\ last' = [op |-> "insert", data |-> v, pc |-> "done"]
    /\ UNCHANGED trip

\* remove(data) up to the head of the outer loop: `if (_root == nullptr)
\* return;`, the empty stack s, `T rdata = data`.
CallRemove(v) ==
    /\ Idle
    /\ last' = [op |-> "remove", data |-> v,
                pc |-> IF _root = NULL THEN "done" ELSE "loop",
                rdata |-> v, s |-> <<>>, q |-> NULL, passes |-> 0,
                hit |-> FALSE]
    /\ UNCHANGED <<_root, _size, node, logical, trip>>

\* The frame after a pass of `while (true)` in which find returned q: the
\* call returned (q is null), left the loop by `break` with q spliced out
\* (q has at most one child), or pushed (q, rdata), rdata now the value of
\* the leftmost node of q's right subtree.
FrameAfterPass(q) ==
    IF q = NULL
    THEN [last EXCEPT !.pc = "done", !.rdata = 0, !.s = <<>>, !.passes = @ + 1]
    ELSE IF node[q].right = NULL \/ node[q].left = NULL
    THEN [last EXCEPT !.pc = "after", !.q = q, !.hit = TRUE, !.passes = @ + 1]
    ELSE [last EXCEPT !.rdata = node[LeftMost(cur, node[q].right)].data,
                      !.s = Append(@, <<q, node[LeftMost(cur, node[q].right)].data>>),
                      !.passes = @ + 1]

\* The frame once remove returned after the loop.
FrameAfterReturn ==
    [last EXCEPT !.pc = "done", !.rdata = 0, !.s = <<>>, !.q = NULL]

\* One pass of `while (true)`: q = find(rdata); return when q is null;
\* retrace, splice q out and break when q has at most one child; else
\* record the overwrite and go round again.
RemovePass ==
    /\ last.op = "remove"
    /\ last.pc = "loop"
    /\ \E q \in {find(cur, last.rdata)} :
          /\ last' = FrameAfterPass(q)
          /\ IF q = NULL
             THEN /\ logical' = LogicalRemove(last.data)
                  /\ UNCHANGED <<_root, _size, node, trip>>
             ELSE IF node[q].right = NULL \/ node[q].left = NULL
             THEN /\ Store(Splice(cur, q))
                  /\ UNCHANGED <<logical, trip>>
             ELSE UNCHANGED <<_root, _size, node, logical, trip>>

\* remove after the loop was left by `break`: the recorded overwrites,
\* `_size--`, and the return.
RemoveReturn ==
    /\ last.op = "remove"
    /\ last.pc = "after"
    /\ Store(Canon(ReleaseLocal(
            remove_overwrite([cur EXCEPT !.local = last.q, !.s = last.s]))))
    /\ logical' = LogicalRemove(last.data)
    /\ last' = FrameAfterReturn
    /\ UNCHANGED trip

NextCall ==
    \/ \E v \in CallValues : CallInsert(v)
    \/ \E v \in CallValues : CallRemove(v)
    \/ RemovePass
    \/ RemoveReturn

\* What a step of RemovePass or of RemoveReturn does to the frame.
CallAdvances ==
    \/ last.pc = "loop" /\ last' = FrameAfterPass(find(cur, last.rdata))
    \/ last.pc = "after" /\ last' = FrameAfterReturn

\* A call of remove in progress is the only thing the one thread is doing,
\* so its next pass, or its return, is taken.  RemovePass and RemoveReturn
\* are enabled whenever their pc is reached, and they are the only steps
\* that change the frame of a call in progress: weak fairness of the two
\* is weak fairness of CallAdvances.
SpecCall == Init /\ [][NextCall]_vars /\ WF_last(CallAdvances)

\* The program with its queries called between the calls of insert and
\* remove; `last` records of a query its name and the value it returned
\* (not what it left in the caller's variables).
QueryData == CallValues \cup {10 * k + 5 : k \in 0..MaxCall}

\* The conditions passed: always-true (the default argument), and the
\* values 10 * k with k even.
QueryConds == {CallValues, {v \in CallValues : (v \div 10) % 2 = 0}}

\* The object a query leaves.  The query functions take their arguments by
\* const reference or into the caller's variables, their locals are copies
\* of shared_ptrs, and none of their statements assigns to _root, to _size
\* or to a field of a node.
\* QueryLeaves with the left link of the root cut while the tree is walked.
QueryLeaves_BreakLink(t) ==
    IF t.root = NULL THEN t ELSE [t EXCEPT !.node[t.root].left = NULL]

QueryLeaves(t) == t

\* The state after query op returned ret.
Queried(t, op, ret) ==
    /\ Idle
    /\ Store(t)
    /\ last' = [op |-> op, ret |-> ret, pc |-> "done"]
    /\ UNCHANGED <<logical, trip>>

QuerySize == Queried(QueryLeaves(cur), "size", size(cur))

QueryHeight == Queried(QueryLeaves(cur), "height", height(cur))

QueryHeightBounds ==
    Queried(QueryLeaves(cur), "height_bounds", height_bounds(cur))

QueryVector == Queried(QueryLeaves(cur), "to_stl_vector", to_stl_vector(cur))

QueryRoot == Queried(QueryLeaves(cur), "root", root(cur, 0).ret)

QueryContains(v) == Queried(QueryLeaves(cur), "contains", contains(cur, v))

QuerySearch(v) == Queried(QueryLeaves(cur), "search", search(cur, v, 0).ret)

QueryParent(v) == Queried(QueryLeaves(cur), "parent", parent(cur, v, 0).ret)

QuerySearchBefore(v, cond) ==
    Queried(QueryLeaves(cur), "search_before", search_before(cur, v, 0, cond).ret)

QuerySearchAfter(v, cond) ==
    Queried(QueryLeaves(cur), "search_after", search_after(cur, v, 0, cond).ret)

QuerySearchNeighbors(v, cond) ==
    Queried(QueryLeaves(cur), "search_neighbors",
            search_neighbors(cur, v, {}, cond).ret)

NextQuery ==
    \/ NextCall
    \/ QuerySize
    \/ QueryHeight
    \/ QueryHeightBounds
    \/ QueryVector
    \/ QueryRoot
    \/ \E v \in QueryData : QueryContains(v)
    \/ \E v \in QueryData : QuerySearch(v)
    \/ \E v \in QueryData : QueryParent(v)
    \/ \E v \in QueryData, cond \in QueryConds : QuerySearchBefore(v, cond)
    \/ \E v \in QueryData, cond \in QueryConds : QuerySearchAfter(v, cond)
    \/ \E v \in QueryData, cond \in QueryConds : QuerySearchNeighbors(v, cond)

SpecQuery == Init /\ [][NextQuery]_vars

---------------------------------------------------------------------------
\* Properties.  Mathematical notions the claims are stated in.

\* The addresses of the subtree rooted at p.
RECURSIVE Subtree(_, _)
Subtree(nd, p) ==
    IF p = NULL THEN {}
    ELSE Subtree(nd, nd[p].left) \cup {p} \cup Subtree(nd, nd[p].right)

\* The number of nodes on the longest path from p down to a leaf.
RECURSIVE SubtreeHeight(_, _)
SubtreeHeight(nd, p) ==
    IF p = NULL THEN 0
    ELSE LET l == SubtreeHeight(nd, nd[p].left)
             r == SubtreeHeight(nd, nd[p].right)
         IN 1 + (IF l > r THEN l ELSE r)

Reachable == Subtree(node, _root)

\* C1: after every completed insert or remove, every node's stored
\* balance_factor is height(right subtree) - height(left subtree) and lies
\* in {-1, 0, +1}.
C1_BalanceFactors ==
    \A n \in Reachable :
        /\ node[n].balance_factor \in {-1, 0, 1}
        /\ node[n].balance_factor =
              SubtreeHeight(node, node[n].right) - SubtreeHeight(node, node[n].left)

\* A remove that spliced a node out of a tree of at least 7 nodes and whose
\* retrace rotated with a sibling Z that was not balanced (so the walk went
\* on upward), leaving a tree in which some node leans.
C1_Witness ==
    /\ last.op = "remove"
    /\ last.hit
    /\ \E i \in 1..Len(last.log) : last.log[i].bZ # 0
    /\ _size >= 6
    /\ \E n \in Reachable : node[n].balance_factor # 0

\* C2: after every completed insert or remove, every value in a node's left
\* subtree compares Less than the node's value and every value in its right
\* subtree compares Greater; no two nodes hold values that compare Equal.
C2_BST ==
    /\ \A n \in Reachable :
          /\ \A m \in Subtree(node, node[n].left) :
                comparator(node[m].data, node[n].data) < 0
          /\ \A m \in Subtree(node, node[n].right) :
                comparator(node[m].data, node[n].data) > 0
    /\ \A n, m \in Reachable :
          n # m => comparator(node[n].data, node[m].data) # 0

\* A remove of a value whose node had two children (an overwrite was
\* recorded) and whose retrace rotated.
C2_Witness ==
    /\ last.op = "remove"
    /\ last.overwrites >= 1
    /\ last.log # <<>>
    /\ _size >= 4

\* The values held by the nodes of the tree.
Stored == {node[n].data : n \in Reachable}

\* x is a member of the set S of values under the order relation.
MemberEq(x, S) == \E y \in S : comparator(x, y) = 0

\* C3: contains(x) is true exactly when x is in the logical set (a value that
\* compares Equal to x was inserted and not removed since); contains(d) is
\* true right after insert(d).
C3_Contains ==
    /\ \A x \in Values : contains(cur, x) <=> MemberEq(x, logical)
    /\ last.op = "insert" => contains(cur, last.data)

\* After an insert that attached a node: the value is found, some other
\* value is not, and the value 11 is found although 10 is what is stored.
C3_Witness ==
    /\ last.op = "insert"
    /\ last.hit
    /\ _size >= 5
    /\ contains(cur, last.data)
    /\ \E x \in Values : ~contains(cur, x)
    /\ contains(cur, 11) /\ 11 \notin Stored

\* C4: to_stl_vector returns exactly the values of the logical set, each
\* once, in ascending order under the comparator.
C4_OrderedVector ==
    LET v == to_stl_vector(cur)
    IN /\ Len(v) = Cardinality(logical)
       /\ {v[i] : i \in 1..Len(v)} = logical
       /\ \A i, j \in 1..Len(v) : i < j => comparator(v[i], v[j]) < 0

\* A tree of at least 5 values, left by a remove that spliced a node out,
\* whose root has a right child with a left child.
C4_Witness ==
    /\ last.op = "remove"
    /\ last.hit
    /\ Len(to_stl_vector(cur)) >= 5
    /\ node[_root].right # NULL
    /\ node[node[_root].right].left # NULL

\* C5: size() is the number of nodes reachable from the root and the number
\* of values of the logical set; each insert of a value not in the logical
\* set adds 1, each remove of a value in it subtracts exactly 1, and no
\* other call changes it.
C5_Size ==
    /\ [](size(cur) = Cardinality(Reachable) /\ size(cur) = Cardinality(logical))
    /\ [][_size' - _size =
             IF last'.op = "insert" /\ ~MemberEq(last'.data, logical) THEN 1
             ELSE IF last'.op = "remove" /\ MemberEq(last'.data, logical) THEN -1
             ELSE 0]_vars

\* A remove of a value whose node had two children.
C5_Witness ==
    /\ last.op = "remove"
    /\ last.hit
    /\ last.overwrites >= 1
    /\ _size >= 4

\* C6: remove(v) of a value that no node of the tree holds (under Equal)
\* leaves _root, _size and every node unchanged.
C6_RemoveAbsent ==
    [][(last'.op = "remove" /\ ~MemberEq(last'.data, Stored))
          => UNCHANGED <<_root, _size, node>>]_vars

\* A remove that found nothing, on a tree of at least 3 nodes.
C6_Witness ==
    /\ last.op = "remove"
    /\ ~last.hit
    /\ ~MemberEq(last.data, Stored)
    /\ _size >= 3

\* C7: insert(v) of a value that compares Equal to a stored one leaves
\* _root, _size and every node (links, balance factor and stored value)
\* unchanged, and with them the ordered sequence, which to_stl_vector reads
\* from these alone.
C7_InsertDuplicate ==
    [][(last'.op = "insert" /\ MemberEq(last'.data, Stored))
          => UNCHANGED <<_root, _size, node>>]_vars

\* insert(11) on a tree that stores 10: Equal, but not the same value.
C7_Witness ==
    /\ last.op = "insert"
    /\ ~last.hit
    /\ last.data = 11
    /\ 10 \in Stored
    /\ _size >= 3

\* C8: height() is the number of nodes on the longest root-to-leaf path (0
\* for the empty tree) and lies between the two bounds of height_bounds();
\* the lower bound is floor(log2(size + 1)).
C8_HeightBounds ==
    LET hb == height_bounds(cur)
    IN /\ height(cur) = SubtreeHeight(node, _root)
       /\ hb[1] <= height(cur)
       /\ height(cur) <= hb[2]
       /\ 2 ^ hb[1] <= _size + 1
       /\ _size + 1 < 2 ^ (hb[1] + 1)

\* A tree of 7 nodes whose height is the upper bound, 4, and a lower bound
\* of 3.
C8_Witness ==
    /\ _size = 7
    /\ height(cur) = 4
    /\ height_bounds(cur) = <<3, 4>>

---------------------------------------------------------------------------
\* Inputs of the neighbourhood queries.

\* The value searched for: the values of insert/remove and values that lie
\* between them, below them and above them.
SearchData == Values \cup {10 * k + 5 : k \in 0..MaxKeys}

\* The conditions: always-true (the default argument), always-false, and the
\* values 10 * k with k even, with k odd.
Conds ==
    {Values, {},
     {v \in Values : (v \div 10) % 2 = 0},
     {v \in Values : (v \div 10) % 2 = 1}}

\* The value ref holds when the caller passes it.
RefInputs == {0, 10}

\* The values among st that compare Less than v and pass cond.
Preceding(st, v, cond) == {x \in st : comparator(x, v) < 0 /\ x \in cond}

\* The values among st that compare Greater than v and pass cond.
Following(st, v, cond) == {x \in st : comparator(x, v) > 0 /\ x \in cond}

\* C10: search_before(v, ref, cond) returns true with ref set to the greatest
\* stored value that compares Less than v and passes cond; when there is
\* none it returns false and leaves ref as it was.
C10_SearchBefore ==
    LET st == Stored
        t == cur
    IN \A v \in SearchData, cond \in Conds, ref \in RefInputs :
          LET r == search_before(t, v, ref, cond)
              Q == Preceding(st, v, cond)
          IN IF Q = {}
             THEN r.ret = FALSE /\ r.ref = ref
             ELSE /\ r.ret = TRUE
                  /\ r.ref \in Q
                  /\ \A x \in Q : comparator(x, r.ref) <= 0

\* A search from a stored value that has a left subtree, in which the
\* condition rejects a nearer preceding value and a farther one is returned;
\* and a search (for a stored value) that finds nothing although the tree
\* holds preceding values.
C10_Witness ==
    /\ _size >= 5
    /\ \E v \in Stored, cond \in Conds :
          LET r == search_before(cur, v, 0, cond)
          IN /\ r.ret
             /\ node[find(cur, v)].left # NULL
             /\ \E x \in Stored : comparator(x, v) < 0 /\ comparator(r.ref, x) < 0
    /\ \E v \in Stored, cond \in Conds \ {{}} :
          /\ ~search_before(cur, v, 10, cond).ret
          /\ \E x \in Stored : comparator(x, v) < 0

\* What search_neighbors is to leave in an empty map: Before and After as
\* search_before and search_after find them, Equal with the stored match
\* when contains holds.
NeighborsExpected(t, v, cond) ==
    LET b == search_before(t, v, 0, cond)
        a == search_after(t, v, 0, cond)
    IN (IF b.ret THEN {<<"Before", b.ref>>} ELSE {})
       \cup (IF a.ret THEN {<<"After", a.ref>>} ELSE {})
       \cup (IF contains(t, v) THEN {<<"Equal", t.node[find(t, v)].data>>} ELSE {})

\* C9: called with an empty map, search_neighbors leaves in it the key Before
\* exactly with what search_before finds, the key After exactly with what
\* search_after finds, and the key Equal (with the stored match) exactly when
\* contains holds.
C9_NeighborsAgree ==
    LET t == cur
    IN \A v \in SearchData, cond \in Conds :
          search_neighbors(t, v, {}, cond).ref = NeighborsExpected(t, v, cond)

---------------------------------------------------------------------------
\* C11: search_after(v, ref, cond) returns true with ref set to the least
\* stored value that compares Greater than v and passes cond; when there is
\* none it returns false and leaves ref as it was.
C11_SearchAfter ==
    LET st == Stored
        t == cur
    IN \A v \in SearchData, cond \in Conds, ref \in RefInputs :
          LET r == search_after(t, v, ref, cond)
              Q == Following(st, v, cond)
          IN IF Q = {}
             THEN r.ret = FALSE /\ r.ref = ref
             ELSE /\ r.ret = TRUE
                  /\ r.ref \in Q
                  /\ \A x \in Q : comparator(r.ref, x) <= 0

\* A search from a stored value that has a right subtree, in which the
\* condition rejects a nearer following value and a farther one is
\* returned; and a search (for a stored value) that finds nothing although
\* the tree holds following values.
C11_Witness ==
    /\ _size >= 5
    /\ \E v \in Stored, cond \in Conds :
          LET r == search_after(cur, v, 0, cond)
          IN /\ r.ret
             /\ node[find(cur, v)].right # NULL
             /\ \E x \in Stored : comparator(x, v) > 0 /\ comparator(x, r.ref) < 0
    /\ \E v \in Stored, cond \in Conds \ {{}} :
          /\ ~search_after(cur, v, 10, cond).ret
          /\ \E x \in Stored : comparator(x, v) > 0

---------------------------------------------------------------------------
\* C12: root() reports not-found (leaving the caller's variable alone)
\* exactly when size() is 0; otherwise it yields the value of the one
\* reachable node that has no parent.  When every inserted value has been
\* removed, size() is 0 and root() is not-found.
C12_Root ==
    /\ \A d \in RefInputs :
          LET r == root(cur, d)
          IN /\ ~r.ret <=> size(cur) = 0
             /\ ~r.ret => r.data = d
             /\ r.ret => /\ r.data \in Stored
                         /\ \A n \in Reachable :
                               node[n].parent = NULL <=> node[n].data = r.data
    /\ logical = {} => size(cur) = 0 /\ ~root(cur, 0).ret

\* The remove of the last value has just emptied the tree.
C12_Witness ==
    /\ last.op = "remove"
    /\ last.hit
    /\ logical = {}
    /\ size(cur) = 0
    /\ ~root(cur, 0).ret

---------------------------------------------------------------------------
\* No two values of S compare Equal.
PairwiseDistinct(S) == \A x, y \in S : x # y => comparator(x, y) # 0

\* Every value of U has been inserted again.
TripDone == trip.phase = "again" /\ trip.again = trip.U

\* C13 as stated: after inserting every value of a set U, removing any
\* subset of U and inserting every value of U again, to_stl_vector returns
\* the sequence, and size() the count, read after the first insertion of U.
C13_RoundTrip_AsStated ==
    TripDone => to_stl_vector(cur) = trip.first /\ size(cur) = trip.count

\* C13, amended: the same for a set U no two values of which compare Equal.
C13_RoundTrip ==
    (TripDone /\ PairwiseDistinct(trip.U))
        => to_stl_vector(cur) = trip.first /\ size(cur) = trip.count

\* A round trip of four values, two of them removed, completed.
C13_Witness ==
    /\ TripDone
    /\ PairwiseDistinct(trip.U)
    /\ Cardinality(trip.U) >= 4
    /\ Cardinality(trip.removed) = 2
    /\ to_stl_vector(cur) = trip.first

---------------------------------------------------------------------------
\* The values held by the nodes that have a node comparing Equal to v as
\* their left or right child.
ParentValues(v) ==
    {node[m].data : m \in {k \in Reachable :
        \E n \in {node[k].left, node[k].right} \ {NULL} :
            comparator(v, node[n].data) = 0}}

\* C14: parent(v, ref) returns true with ref set to the value of the node
\* whose child holds v, when v is stored and not held by the root; it
\* returns false and leaves ref as it was when v is absent or held by the
\* root.
C14_Parent ==
    \A v \in SearchData, ref \in RefInputs :
       LET r == parent(cur, v, ref)
       IN IF MemberEq(v, Stored) /\ comparator(v, node[_root].data) # 0
          THEN r.ret /\ ParentValues(v) = {r.ref}
          ELSE ~r.ret /\ r.ref = ref

\* A tree of at least 6 nodes in which parent answers for a node two levels
\* below the root, and refuses for the root and for an absent value.
C14_Witness ==
    /\ _size >= 6
    /\ \E v \in Stored :
          /\ parent(cur, v, 0).ret
          /\ parent(cur, parent(cur, v, 0).ref, 0).ret
    /\ ~parent(cur, node[_root].data, 0).ret
    /\ \E v \in SearchData : ~MemberEq(v, Stored) /\ ~parent(cur, v, 0).ret

---------------------------------------------------------------------------
\* The node holding the in-order successor of node q: the node whose value
\* is the least of those Greater than q's.
Successor(q) ==
    CHOOSE n \in Reachable :
        /\ comparator(node[n].data, node[q].data) > 0
        /\ \A m \in Reachable :
              comparator(node[m].data, node[q].data) > 0
                  => comparator(node[n].data, node[m].data) <= 0

\* v is stored in a node with two children.
TwoChildren(v) ==
    /\ find(cur, v) # NULL
    /\ node[find(cur, v)].left # NULL
    /\ node[find(cur, v)].right # NULL

\* What C15 says of the object t that remove(v) leaves (addresses as remove
\* left them), q being the node that held v and succ its successor's node.
TwoChildrenRemoved(t, q, succ) ==
    /\ DOMAIN t.node = DOMAIN node \ {succ}
    /\ Subtree(t.node, t.root) = Reachable \ {succ}
    /\ t.local = succ
    /\ t.node[q].data = node[succ].data
    /\ \A n \in Reachable \ {q, succ} : t.node[n].data = node[n].data
    /\ Len(t.s) = 1
    /\ {t.node[n].data : n \in Subtree(t.node, t.root)} = Stored \ {node[q].data}

\* The step took the tree to t, up to the names of the addresses.
TwoChildrenStep(t, q) ==
    /\ TwoChildrenRemoved(t, q, Successor(q))
    /\ <<_root', node'>> = <<Canon(t).root, Canon(t).node>>

\* C15: a remove(v) of a value stored in a node q with two children unlinks
\* (and destroys) exactly one node, the in-order successor's; q stays in the
\* tree and then holds the successor's value, every other node keeps its
\* value, and the stored set is the previous one minus v's match.
C15_TwoChildrenRemove ==
    [][\A v \in Values :
          (last'.op = "remove" /\ last'.data = v /\ TwoChildren(v))
             => /\ TwoChildrenStep(remove(cur, v), find(cur, v))
                /\ _size' = _size - 1
                /\ last'.hit /\ last'.overwrites = 1]_vars

\* A remove that recorded an overwrite (its value was in a node with two
\* children) and rotated while retracing from the successor's node.
C15_Witness ==
    /\ last.op = "remove"
    /\ last.hit
    /\ last.overwrites = 1
    /\ last.log # <<>>
    /\ ~MemberEq(last.data, Stored)

---------------------------------------------------------------------------
\* The nodes above n, by the parent links of heap nd.
RECURSIVE AncestorsOf(_, _)
AncestorsOf(nd, n) ==
    IF nd[n].parent = NULL THEN {}
    ELSE {nd[n].parent} \cup AncestorsOf(nd, nd[n].parent)

\* Node n's balance factor in heap nd is height(right) - height(left).
BalanceCorrect(nd, n) ==
    nd[n].balance_factor =
        SubtreeHeight(nd, nd[n].right) - SubtreeHeight(nd, nd[n].left)

\* What C16 says of the object t that remove leaves (addresses as remove
\* left them), for the i-th relink, done below a parent G of X.
RetraceRemoveRelink(t, i, e) ==
    /\ e.stop <=> SubtreeHeight(t.node, e.N) = SubtreeHeight(node, e.X)
    /\ e.stop =>
          /\ i = Len(t.relinks)
          /\ \A a \in AncestorsOf(t.node, e.N) :
                t.node[a].balance_factor = node[a].balance_factor
    /\ ~e.stop =>
          /\ SubtreeHeight(t.node, e.N) = SubtreeHeight(node, e.X) - 1
          /\ t.node[e.N].parent = e.G
          /\ \/ t.node[e.G].balance_factor # node[e.G].balance_factor
             \/ i < Len(t.relinks) /\ t.relinks[i + 1].X = e.G

RetraceRemoveSound(t) ==
    /\ \A i \in 1..Len(t.relinks) :
          t.relinks[i].G # NULL => RetraceRemoveRelink(t, i, t.relinks[i])
    /\ \A n \in Subtree(t.node, t.root) : BalanceCorrect(t.node, n)

\* C16: in retrace_remove, after a rotation at a node X that has a parent G,
\* the walk stops exactly when the rotated subtree is as high as X's subtree
\* was before the removal; it is then the last relink and no node above has
\* its balance factor changed.  Otherwise the rotated subtree is lower by
\* one and the walk goes on from its root N at G (G's balance factor is
\* updated or G is rotated next).  When remove returns, every node's balance
\* factor is correct.
C16_RetraceRemove ==
    [][\A v \in DeepValues :
          (last'.op = "remove" /\ last'.data = v) => RetraceRemoveSound(remove(cur, v))]_vars

\* A remove whose retrace rotated below a parent and stopped there.
C16_Witness ==
    /\ last.op = "remove"
    /\ \E i \in DOMAIN last.relinks :
          last.relinks[i].hasG /\ last.relinks[i].stop

---------------------------------------------------------------------------
\* What C17 says of the object t that insert leaves (addresses as insert
\* left them), for a relink e of the subtree rotated at X.
RetraceInsertRelink(t, e) ==
    /\ e.stop
    /\ SubtreeHeight(t.node, e.N) = SubtreeHeight(node, e.X)
    /\ AncestorsOf(t.node, e.N) = AncestorsOf(node, e.X)
    /\ \A a \in AncestorsOf(node, e.X) :
          t.node[a].balance_factor = node[a].balance_factor

RetraceInsertSound(t) ==
    /\ Len(t.log) <= 1
    /\ Len(t.relinks) = Len(t.log)
    /\ \A i \in 1..Len(t.relinks) : RetraceInsertRelink(t, t.relinks[i])
    /\ \A n \in Subtree(t.node, t.root) : BalanceCorrect(t.node, n)

\* C17: an insert invokes at most one rotation primitive; the retrace loop
\* is left right after that rotation's result is relinked; the rotated
\* subtree is as high as X's subtree was before the insert, and no node above
\* X has its balance factor changed.
C17_RetraceInsert ==
    [][\A v \in DeepValues :
          (last'.op = "insert" /\ last'.data = v) => RetraceInsertSound(insert(cur, v))]_vars

\* An insert that rotated below a parent and left a tree of at least 7 nodes.
C17_Witness ==
    /\ last.op = "insert"
    /\ _size >= 7
    /\ \E i \in DOMAIN last.relinks : last.relinks[i].hasG

---------------------------------------------------------------------------
\* The i-th rotation of the call that left t was a double rotation whose
\* inner grandchild Y had balance factor 0 when it was invoked.
DoubleWithBalancedY(t, i) == t.log[i].hasY /\ t.log[i].bY = 0

---------------------------------------------------------------------------
\* What C19 says of the object t that insert leaves: every single rotation
\* (its relink names X and the returned root Z) was invoked with a Z of
\* balance factor other than 0 and left X and Z with balance factor 0.
SingleRotationsSound(t) ==
    \A i \in DOMAIN t.log :
        ~t.log[i].hasY =>
            /\ t.log[i].bZ # 0
            /\ t.node[t.relinks[i].X].balance_factor = 0
            /\ t.node[t.relinks[i].N].balance_factor = 0

\* C19: no insert invokes rotate_left or rotate_right with a taller child Z
\* whose balance factor is 0; after an insert's single rotation X and Z both
\* have balance factor 0.
C19_SingleRotation ==
    [][\A v \in Values :
          (last'.op = "insert" /\ last'.data = v)
              => SingleRotationsSound(insert(cur, v))]_vars

\* An insert that has just invoked a single rotation and left a tree of at
\* least 6 nodes.
C19_Witness ==
    /\ last.op = "insert"
    /\ _size >= 6
    /\ \E i \in DOMAIN last.log : ~last.log[i].hasY /\ last.log[i].bZ # 0

---------------------------------------------------------------------------
\* What C20 says of the object t that insert or remove leaves: every
\* rotation was relinked, and from the invocation of the rotation to the end
\* of the relink the in-order sequence of the whole tree (nodes and values)
\* and the set of nodes in use did not change.
RotationsPreserveOrder(t) ==
    /\ Len(t.relinks) = Len(t.log)
    /\ \A i \in DOMAIN t.relinks :
          /\ t.relinks[i].after.order = t.relinks[i].before.order
          /\ t.relinks[i].after.heap = t.relinks[i].before.heap
          /\ \A j, k \in DOMAIN t.relinks[i].after.order :
                j < k => comparator(t.relinks[i].after.order[j][2],
                                    t.relinks[i].after.order[k][2]) < 0

\* C20: each rotation of an insert's or a remove's retrace, with the relink
\* of its returned root under X's former parent (or as _root), leaves the
\* in-order sequence of the whole tree and the set of nodes unchanged.
C20_RotationOrder ==
    [][\A v \in Values :
          /\ (last'.op = "insert" /\ last'.data = v)
                => RotationsPreserveOrder(insert(cur, v))
          /\ (last'.op = "remove" /\ last'.data = v)
                => RotationsPreserveOrder(remove(cur, v))]_vars

\* A remove from a tree of 7 nodes has just invoked a double rotation.
C20_Witness ==
    /\ last.op = "remove"
    /\ last.hit
    /\ _size = 6
    /\ \E i \in DOMAIN last.log : last.log[i].hasY

---------------------------------------------------------------------------
\* The safety part of C21 at one state of a call of remove: at most two
\* passes and one recorded overwrite; after a pass that recorded one, the
\* next find returns the successor, the leftmost node of the right subtree
\* of the node to overwrite, and it has no left child; a remove that made
\* two passes spliced a node out.
RemoveBounded ==
    last.op = "remove" =>
        /\ last.passes <= 2
        /\ Len(last.s) <= 1
        /\ (last.pc = "loop" /\ last.passes = 1) =>
              /\ Len(last.s) = 1
              /\ find(cur, last.rdata) # NULL
              /\ find(cur, last.rdata)
                    = LeftMost(cur, node[last.s[1][1]].right)
              /\ node[find(cur, last.rdata)].left = NULL
        /\ (last.pc = "done" /\ last.passes = 2) => last.hit

\* C21: remove always terminates and makes at most two find passes: the
\* in-order successor of a node with two children has no left child, so
\* the second pass splices a node out and at most one overwrite is
\* recorded.
C21_RemoveTerminates ==
    /\ []RemoveBounded
    /\ (last.pc # "done") ~> (last.pc = "done")

\* A remove that made two passes has returned: its first pass found a node
\* with two children in a tree of 5 nodes, its second spliced the successor
\* out.
C21_Witness ==
    /\ last.op = "remove"
    /\ last.pc = "done"
    /\ last.passes = 2
    /\ last.hit
    /\ _size = 4

---------------------------------------------------------------------------
QueryOps ==
    {"contains", "search", "parent", "root", "size", "height",
     "height_bounds", "to_stl_vector", "search_before", "search_after",
     "search_neighbors"}

---------------------------------------------------------------------------
\* The parent back-references agree with the child links: the root has no
\* parent and every child's parent is the node it hangs under.
ParentLinks ==
    /\ _root # NULL => node[_root].parent = NULL
    /\ \A n \in DOMAIN node :
          /\ node[n].left # NULL => node[node[n].left].parent = n
          /\ node[n].right # NULL => node[node[n].right].parent = n

\* In the object t that remove leaves before its local q is released, the
\* node spliced out has its three links null and cannot be reached from
\* the root.
SplicedPurged(t) ==
    t.local # NULL =>
        /\ t.node[t.local].parent = NULL
        /\ t.node[t.local].left = NULL
        /\ t.node[t.local].right = NULL
        /\ t.local \notin Subtree(t.node, t.root)
        /\ \A n \in DOMAIN t.node :
              t.local \notin {t.node[n].left, t.node[n].right, t.node[n].parent}

\* C23: after every completed insert or remove the root's parent is null
\* and every non-null child c of a node n has c.parent = n; a node spliced
\* out by remove has its parent, left and right links null and is no
\* longer reachable from the root.
C23_ParentLinks ==
    /\ []ParentLinks
    /\ [][\A v \in Values :
             (last'.op = "remove" /\ last'.data = v)
                 => SplicedPurged(remove_body(cur, v))]_vars

\* A remove from a tree of 7 nodes found a node with two children, spliced
\* its successor out and rotated.
C23_Witness ==
    /\ last.op = "remove"
    /\ last.hit
    /\ last.overwrites = 1
    /\ last.log # <<>>
    /\ _size = 6

---------------------------------------------------------------------------
\* C24: called with an empty map, search_neighbors returns true if and only
\* if it left at least one entry (Before, Equal or After) in the map; it
\* returns false only when the map is left empty.
C24_NeighborsReturn ==
    \A v \in SearchData, cond \in Conds :
        search_neighbors(cur, v, {}, cond).ret
            <=> (search_neighbors(cur, v, {}, cond).ref # {})

=============================================================================
